---- MODULE Spec2Model ----
(***************************************************************************)
(* Model of operator/rust/crates/operator/src/spam_tasks.rs: the task      *)
(* spammer of the trappist AVS operator.  One cooperative task alternates  *)
(* between interval.tick() and create_new_task().  The deployment file and *)
(* the PRIVATE_KEY environment variable belong to the environment.  The    *)
(* file is read by every call, so each call finds it in any state, the     *)
(* same as before or changed since the last call; the variable is read at  *)
(* most once, so it is a state variable with an action that changes it.    *)
(* Both are read only before the first await of a call, so a change during *)
(* a call is the same as a change right after it: SetEnv acts between      *)
(* calls.                                                                  *)
(*                                                                         *)
(* Time is an integer number of seconds since start_creating_tasks created *)
(* its interval.  The state keeps the full detail of the latest tick (cur,  *)
(* net, tickLog) and counters / first-seen values for the ticks before it. *)
(***************************************************************************)
EXTENDS Integers, Sequences, FiniteSets

\* ------------------------------------------------------------------ bounds
MaxTicks == 3          \* ticks of the loop that are explored
ShortDelay == 7        \* a slow send(): shorter than the interval
LongDelay == 31        \* a slow get_receipt(): longer than two intervals

\* ------------------------------------------------------- program constants
Period == 15           \* Duration::from_secs(15)
NumberRange == 1000    \* rng.gen_range(0..1000)

adjectives == <<"Quick", "Lazy", "Sleepy", "Noisy", "Hungry">>
nouns == <<"Fox", "Dog", "Cat", "Mouse", "Bear">>

\* --------------------------------------------------------- name generator
Digits == <<"0", "1", "2", "3", "4", "5", "6", "7", "8", "9">>

\* A number formatted with a fixed width of three digits ({:03}).
DecimalPadded(n) ==
    Digits[(n \div 100) + 1] \o Digits[((n \div 10) % 10) + 1]
        \o Digits[(n % 10) + 1]

RECURSIVE Decimal(_)
\* Display of an unsigned integer: decimal, no padding, no separator.
Decimal(n) ==
    IF n < 10 THEN Digits[n + 1]
    ELSE Decimal(n \div 10) \o Digits[(n % 10) + 1]

\* format!("{}{}{}", adjective, noun, number) for the three draws of the rng
\* (a, n are the 0-based indices drawn by gen_range, k the drawn number).
generate_random_name(a, n, k) ==
    adjectives[a + 1] \o nouns[n + 1] \o Decimal(k)

\* rng.gen_range(lo..hi): any value of the half-open range.
gen_range(lo, hi) == lo .. (hi - 1)

\* The draws of the rng explored in the scheduler's specification.
SampleDraws == {<<0, 0, 0>>, <<1, 2, 42>>, <<4, 4, 999>>}

\* ------------------------------------------------------------ environment
\* States of contracts/deployments/trappist/31337.json.
MissingFiles == {"missing", "unreadable"}
MalformedJson == {"notjson", "noaddr"}
MalformedAddress == {"badaddr"}
ValidFiles == {"addrA", "addrB"}
BadFiles == MissingFiles \cup MalformedJson \cup MalformedAddress
FileStates == BadFiles \cup ValidFiles

\* Values of the PRIVATE_KEY environment variable.
\* "unset": not in the environment; "badkey": text that is no key.
ValidKeys == {"k1", "k2"}
EnvStates == {"unset", "badkey"} \cup ValidKeys

\* Values of PRIVATE_KEY that are not valid Unicode ("raw": key material
\* exported as bytes instead of their hexadecimal form).
NotUnicode == {"raw"}

\* How long send().await and get_receipt().await may take.
SendDelays == {0, ShortDelay}
ReceiptDelays == {0, LongDelay}

Max(a, b) == IF a >= b THEN a ELSE b

VARIABLES
    pc,         \* "idle": in interval.tick(); "send" / "receipt": in the
                \* awaits of create_new_task; "panicked": process aborted
    now,        \* the clock
    deadline,   \* the instant of the interval's next tick
    KEY,        \* the Lazy cell: "uninit" or the String it holds
    env,        \* PRIVATE_KEY in the process environment
    file,       \* the deployment file as the latest call found it
                \* ("none": no call yet)
    ticks,      \* ticks of the interval that completed
    generated,  \* calls of generate_random_name
    namesSeen,  \* the names generated so far
    callsMade,  \* calls of create_new_task
    returned,   \* calls of create_new_task that returned
    anyOk,      \* whether some create_new_task call returned Ok
    inflight,   \* ticks whose create_new_task call has not returned
    lastStart,  \* instant the latest tick completed (-1: none)
    maxDelay,   \* longest await of a submission so far
    cur,        \* the latest create_new_task call
    net,        \* transactions broadcast since the latest tick
    firstAddr,  \* the first contract address ever parsed ("none")
    firstKey,   \* the first value ever read from PRIVATE_KEY ("none")
    envReads,   \* reads of PRIVATE_KEY (env::var)
    tickLog,    \* lines logged / printed since the latest tick
    stderr,     \* what the process wrote to standard error
    draws,      \* the values the rng returned to the latest call of
                \* generate_random_name, in the order drawn
    random_name \* the name the latest call of generate_random_name
                \* returned ("": none, or the call has not returned)

vars == <<pc, now, deadline, KEY, env, file, ticks, generated, namesSeen,
          callsMade, returned, anyOk, inflight, lastStart, maxDelay, cur,
          net, firstAddr, firstKey, envReads, tickLog, stderr, draws,
          random_name>>

NoCall == [name |-> "", steps |-> <<>>, to |-> "none", key |-> "none",
           result |-> "none"]

\* ------------------------------------------------------- create_new_task
\* std::fs::read_to_string(...)? : TRUE when the read succeeds.
read_to_string(f) == f \notin MissingFiles

\* A parse that accepts any document and leaves the error to a later step.
from_str_lenient(f) == TRUE

\* serde_json::from_str::<trappistData>(&data)? : TRUE when the document
\* is JSON holding addresses.trappist_service_manager.
from_str(f) == f \notin MalformedJson

\* A parse that falls back to a default address.
parse_or_default(f) ==
    CASE f = "addrA" -> "A"
      [] f = "addrB" -> "B"
      [] OTHER -> "A"

\* parsed.addresses.trappist_service_manager.parse::<Address>()? :
\* the address, or "err".
parse(f) ==
    CASE f = "addrA" -> "A"
      [] f = "addrB" -> "B"
      [] OTHER -> "err"

\* env::var("PRIVATE_KEY"): Ok(value), Err(VarError::NotPresent) or
\* Err(VarError::NotUnicode(value)).
env_var(e) ==
    IF e = "unset" THEN [ok |-> FALSE, err |-> "NotPresent", value |-> "none"]
    ELSE IF e \in NotUnicode
         THEN [ok |-> FALSE, err |-> "NotUnicode", value |-> e]
    ELSE [ok |-> TRUE, err |-> "none", value |-> e]

\* .expect("failed to retrieve private key") on Err(err): the panic message
\* is the text followed by the Debug form of err, which for NotUnicode
\* shows the value it carries.
expect(r) ==
    [kind |-> "panic", text |-> "failed to retrieve private key",
     err |-> r.err, value |-> r.value]

\* A cell initialised with unwrap_or_default(): no panic when unset.
DerefOrDefault(cell, e) ==
    IF cell # "uninit" THEN [cell |-> cell, reads |-> 0, panic |-> FALSE]
    ELSE IF ~env_var(e).ok
         THEN [cell |-> "badkey", reads |-> 1, panic |-> FALSE]
    ELSE [cell |-> e, reads |-> 1, panic |-> FALSE]

\* A key read from the environment at every use.
DerefUncached(cell, e) ==
    IF ~env_var(e).ok THEN [cell |-> cell, reads |-> 1, panic |-> TRUE]
    ELSE [cell |-> e, reads |-> 1, panic |-> FALSE]

\* Deref of the Lazy cell: the cell keeps its value once initialised, and
\* is initialised from env::var("PRIVATE_KEY"); .expect panics when the
\* variable is unset or not Unicode.  [cell: the cell after the deref,
\* reads: reads of the environment, panic: whether the initialiser panicked]
Deref(cell, e) ==
    IF cell # "uninit" THEN [cell |-> cell, reads |-> 0, panic |-> FALSE]
    ELSE IF ~env_var(e).ok
         THEN [cell |-> "uninit", reads |-> 1, panic |-> TRUE]
    ELSE [cell |-> e, reads |-> 1, panic |-> FALSE]

\* An address resolved once and kept for the later calls.
ResolveAddressOnce(f, cached) == IF cached # "none" THEN cached ELSE parse(f)

\* The contract address of one call: read and parsed from the deployment
\* file as it is at that call; nothing is kept from an earlier call
\* (cached is the first address ever parsed, which the code does not keep).
ResolveAddress(f, cached) == parse(f)

\* The message of a panic inside get_signer: its text is the library's.
LibraryPanic ==
    [kind |-> "panic", text |-> "get_signer", err |-> "library",
     value |-> "none"]

\* PrivateKeySigner::from_str(&KEY.clone())? : TRUE when the key parses.
signer_from_str(k) == k \in ValidKeys

\* The part of create_new_task before its first await, run against
\* deployment file f, cell KEY = cell and PRIVATE_KEY = e.  steps lists the
\* steps the call attempted, in order: "read", "json", "address" (lines
\* 37-40), "key" (KEY is dereferenced), "client" (get_signer), "signer"
\* (from_str of line 42, which dereferences KEY again), "send".
\* get_signer is library code: on a key that does not parse it either
\* panics or hands the key on to the from_str of the next line (strict
\* chooses).  The provider signs with the key of the first deref.
\* result: "io", "json", "address", "credential" (Err returned), "panic",
\* or "pending" (send was started).  msg: what a panic writes to standard
\* error.
Prefix(f, cached, cell, e, strict) ==
    LET base == [steps |-> <<"read">>, result |-> "io", to |-> "none",
                 key |-> "none", cell |-> cell, reads |-> 0, msg |-> <<>>]
        addr == ResolveAddress(f, cached)
        k == Deref(cell, e)
        k2 == Deref(k.cell, e)
        got == [base EXCEPT !.to = addr, !.cell = k.cell, !.reads = k.reads]
        got2 == [got EXCEPT !.cell = k2.cell, !.reads = k.reads + k2.reads]
    IN  IF ~read_to_string(f) THEN base
        ELSE IF ~from_str(f) THEN
            [base EXCEPT !.steps = <<"read", "json">>, !.result = "json"]
        ELSE IF parse(f) = "err" THEN
            [base EXCEPT !.steps = <<"read", "json", "address">>,
                         !.result = "address"]
        ELSE IF k.panic THEN
            [got EXCEPT !.steps = <<"read", "json", "address", "key">>,
                        !.result = "panic", !.msg = <<expect(env_var(e))>>]
        ELSE IF ~signer_from_str(k.cell) /\ strict THEN
            [got EXCEPT !.steps = <<"read", "json", "address", "key",
                                    "client">>,
                        !.result = "panic", !.msg = <<LibraryPanic>>]
        ELSE IF k2.panic THEN
            [got2 EXCEPT !.steps = <<"read", "json", "address", "key",
                                     "client", "signer">>,
                         !.result = "panic", !.msg = <<expect(env_var(e))>>]
        ELSE IF ~signer_from_str(k2.cell) THEN
            [got2 EXCEPT !.steps = <<"read", "json", "address", "key",
                                     "client", "signer">>,
                         !.result = "credential"]
        ELSE
            [got2 EXCEPT !.steps = <<"read", "json", "address", "key",
                                     "client", "signer", "send">>,
                         !.result = "pending", !.key = k.cell]

ConfigErrors == {"io", "json", "address"}
Errors == ConfigErrors \cup {"credential", "send", "receipt"}

\* ----------------------------------------------------- start_creating_tasks
\* A loop that gives up on the first error.
AfterResultStop(res) == IF res = "ok" THEN "idle" ELSE "stopped"

\* `let _ = create_new_task(..).await;` inside `loop`: whatever the call
\* returned, control goes back to interval.tick().
AfterResult(res) == "idle"

\* A loop that spawns each call instead of awaiting it.
CanTickSpawned == pc \in {"idle", "send", "receipt"}

\* The loop body is sequential: interval.tick() is awaited only by the task
\* that is not inside create_new_task.
CanTick == pc = "idle"

\* An interval whose first tick comes one period after its creation
\* (interval_at(Instant::now() + period, period)).
interval_after_period(t) == t + Period

\* time::interval(period), created at instant t: the first tick completes
\* immediately, so the first deadline is t itself.
interval(t) == t

\* A tick that does not wait for its deadline.
TickInstantNoWait(t, dl) == t

\* Interval::tick with the default MissedTickBehavior::Burst: the tick
\* completes at its deadline, or at once when the deadline has passed.
TickInstant(t, dl) == Max(t, dl)

\* MissedTickBehavior::Skip: after a late tick the missed instants are
\* dropped and the next tick is due at the next multiple of the period.
NextDeadlineSkip(t, dl) ==
    IF t > dl THEN t + Period - ((t - dl) % Period) ELSE dl + Period

\* MissedTickBehavior::Delay: a late tick moves the schedule.
NextDeadlineDelay(t, dl) == Max(t, dl) + Period

\* The deadline after a tick that was due at dl: dl + period, whether or
\* not the tick was late.
NextDeadline(t, dl) == dl + Period

\* A call that is handed a fixed name instead of the one just generated.
task_name_fixed(name_arg) == "QuickFox0"

\* create_new_task(&random_name): the call's task_name is the name that
\* this iteration generated.
task_name(name_arg) == name_arg

CreatingLine(name) == [kind |-> "creating", value |-> name]

\* A loop body that calls create_new_task without logging the name first.
NotLoggedBeforeCall(line) == <<>>

\* get_logger().info(..) stands between generate_random_name() and
\* create_new_task(..): the lines of the iteration that are on the log when
\* the call is entered.
LoggedBeforeCall(line) == <<line>>
TxHash(n) == "0x" \o Decimal(n)

\* The transaction createNewTask(task_name).send() broadcasts in tick t for
\* call c: to the contract at c.to, signed with c.key.
Transaction(t, c) ==
    [hash |-> TxHash(t), name |-> c.name, to |-> c.to, key |-> c.key]
TxLine(hash) == [kind |-> "tx", value |-> hash]

\* A call that also reports its error before returning it.
OutcomeLinesWithErrors(res, hash) ==
    IF res = "ok" THEN <<[kind |-> "tx", value |-> hash]>>
    ELSE IF res \in {"pending", "panic"} THEN <<>>
    ELSE <<[kind |-> "error", value |-> res]>>

\* What create_new_task prints when it ends with res: the println! of the
\* transaction hash stands after the last `?`, so it runs only on the way
\* to Ok(()); an Err is returned without a line, and the caller drops it
\* (`let _ =`).
OutcomeLines(res, hash) == IF res = "ok" THEN <<TxLine(hash)>> ELSE <<>>

\* A send() that re-sends the transaction (a retry inside the call).
BroadcastTwice(n, tx) == n \o <<tx, tx>>

\* The effect of a send() the node accepted: the transaction joins the
\* transactions broadcast.
Broadcast(n, tx) == Append(n, tx)

\* The state when start_creating_tasks enters its loop, PRIVATE_KEY being
\* one of E.
Start(E) ==
    /\ pc = "idle"
    /\ now = 0
    /\ deadline = interval(0)
    /\ KEY = "uninit"
    /\ env \in E
    /\ file = "none"
    /\ ticks = 0
    /\ generated = 0
    /\ namesSeen = {}
    /\ callsMade = 0
    /\ returned = 0
    /\ anyOk = FALSE
    /\ inflight = {}
    /\ lastStart = -1
    /\ maxDelay = 0
    /\ cur = NoCall
    /\ net = <<>>
    /\ firstAddr = "none"
    /\ firstKey = "none"
    /\ envReads = 0
    /\ tickLog = <<>>
    /\ stderr = <<>>
    /\ draws = <<>>
    /\ random_name = ""

Init == Start(EnvStates)

\* One iteration of the loop up to the first await of create_new_task:
\* interval.tick() completes, a name is generated and logged, and
\* create_new_task runs until it returns an error, panics or starts send().
\* The call finds the deployment file in state f.
Tick ==
    /\ CanTick
    /\ ticks < MaxTicks
    /\ ticks' = ticks + 1
    /\ generated' = generated + 1
    /\ callsMade' = callsMade + 1
    /\ \E f \in FileStates,
          strict \in IF signer_from_str(Deref(KEY, env).cell)
                     THEN {TRUE} ELSE BOOLEAN :
        LET start == TickInstant(now, deadline)
            p == Prefix(f, firstAddr, KEY, env, strict)
        IN  /\ file' = f
            /\ now' = start
            /\ deadline' = NextDeadline(now, deadline)
            /\ lastStart' = start
            /\ stderr' = stderr \o p.msg
            /\ net' = <<>>
            /\ KEY' = p.cell
            /\ envReads' = envReads + p.reads
            /\ firstKey' = IF firstKey = "none" /\ p.cell # "uninit"
                            THEN p.cell ELSE firstKey
            /\ firstAddr' = IF firstAddr = "none" /\ p.to # "none"
                             THEN p.to ELSE firstAddr
            /\ CASE p.result = "pending" ->
                      /\ pc' = "send"
                      /\ inflight' = inflight \cup {ticks + 1}
                      /\ UNCHANGED returned
                 [] p.result = "panic" ->
                      /\ pc' = "panicked"
                      /\ inflight' = inflight \cup {ticks + 1}
                      /\ UNCHANGED returned
                 [] OTHER ->
                      /\ pc' = AfterResult(p.result)
                      /\ inflight' = inflight
                      /\ returned' = returned + 1
            /\ \E d \in SampleDraws :
                LET name == generate_random_name(d[1], d[2], d[3])
                IN  /\ namesSeen' = namesSeen \cup {name}
                    /\ draws' = d
                    /\ random_name' = name
                    /\ tickLog' = LoggedBeforeCall(CreatingLine(name))
                                      \o OutcomeLines(p.result, "")
                    /\ cur' = [name |-> task_name(name), steps |-> p.steps,
                               to |-> p.to, key |-> p.key,
                               result |-> p.result]
    /\ UNCHANGED <<env, anyOk, maxDelay>>

\* send().await resolves after d seconds: the node accepted the transaction
\* (it is broadcast, and get_receipt() is awaited next) or the `?` returns
\* the error.
SendResolve ==
    /\ pc = "send"
    /\ \E d \in SendDelays, ok \in BOOLEAN :
        /\ now' = now + d
        /\ maxDelay' = Max(maxDelay, d)
        /\ IF ok
           THEN /\ pc' = "receipt"
                /\ net' = Broadcast(net, Transaction(ticks, cur))
                /\ cur' = [cur EXCEPT !.steps = Append(@, "receipt")]
                /\ UNCHANGED <<returned, inflight>>
           ELSE /\ pc' = AfterResult("send")
                /\ cur' = [cur EXCEPT !.result = "send"]
                /\ returned' = returned + 1
                /\ inflight' = inflight \ {ticks}
                /\ UNCHANGED net
        /\ tickLog' = tickLog \o OutcomeLines(IF ok THEN "pending" ELSE "send",
                                              "")
    /\ UNCHANGED <<deadline, KEY, env, file, ticks, generated, namesSeen,
                   callsMade, anyOk, lastStart, firstAddr, firstKey,
                   envReads, stderr, draws, random_name>>

\* get_receipt().await resolves after d seconds: with the receipt (the hash
\* is printed and Ok(()) returned) or the `?` returns the error.
ReceiptResolve ==
    /\ pc = "receipt"
    /\ \E d \in ReceiptDelays, ok \in BOOLEAN :
        /\ now' = now + d
        /\ maxDelay' = Max(maxDelay, d)
        /\ returned' = returned + 1
        /\ inflight' = inflight \ {ticks}
        /\ IF ok
           THEN /\ pc' = AfterResult("ok")
                /\ cur' = [cur EXCEPT !.result = "ok"]
                /\ anyOk' = TRUE
           ELSE /\ pc' = AfterResult("receipt")
                /\ cur' = [cur EXCEPT !.result = "receipt"]
                /\ UNCHANGED anyOk
        /\ tickLog' = tickLog \o OutcomeLines(IF ok THEN "ok" ELSE "receipt",
                                              net[Len(net)].hash)
    /\ UNCHANGED <<deadline, KEY, env, file, ticks, generated, namesSeen,
                   callsMade, lastStart, net, firstAddr, firstKey,
                   envReads, stderr, draws, random_name>>

\* The environment: PRIVATE_KEY is set, changed or removed.
SetEnv ==
    /\ pc = "idle"
    /\ \E v \in EnvStates \ {env} : env' = v
    /\ UNCHANGED <<pc, now, deadline, KEY, file, ticks, generated, namesSeen,
                   callsMade, returned, anyOk, inflight, lastStart,
                   maxDelay, cur, net, firstAddr, firstKey, envReads,
                   tickLog, stderr, draws, random_name>>

Next == Tick \/ SendResolve \/ ReceiptResolve \/ SetEnv

Spec == Init /\ [][Next]_vars

\* The timer fires and every network await resolves.
FairSpec ==
    Spec /\ WF_vars(Tick) /\ WF_vars(SendResolve) /\ WF_vars(ReceiptResolve)

\* ------------------------------------- a process started with any bytes
\* The same program, started also with a PRIVATE_KEY that is not Unicode.
KeyInit == Start(EnvStates \cup NotUnicode)

KeySpec == KeyInit /\ [][Next]_vars

\* ------------------------------------------- generate_random_name alone
\* The generator called MaxTicks times, with every draw of the rng explored.
\* pc follows the body of generate_random_name: "idle" (not in a call),
\* "noun", "number", "format" (the statement that runs next).
NameInit ==
    /\ Init
    /\ env = "unset"

\* Everything but pc, generated, draws and random_name.
NameFrame ==
    UNCHANGED <<now, deadline, KEY, env, file, ticks, namesSeen, callsMade,
                returned, anyOk, inflight, lastStart, maxDelay, cur, net,
                firstAddr, firstKey, envReads, tickLog, stderr>>

\* let adjective = adjectives[rng.gen_range(0..adjectives.len())];
\* (the name of an earlier iteration is out of scope)
ChooseAdjective(a) ==
    /\ pc = "idle"
    /\ generated < MaxTicks
    /\ a \in gen_range(0, Len(adjectives))
    /\ draws' = <<a>>
    /\ random_name' = ""
    /\ pc' = "noun"
    /\ UNCHANGED generated
    /\ NameFrame

\* let noun = nouns[rng.gen_range(0..nouns.len())];
ChooseNoun(n) ==
    /\ pc = "noun"
    /\ n \in gen_range(0, Len(nouns))
    /\ draws' = Append(draws, n)
    /\ pc' = "number"
    /\ UNCHANGED <<generated, random_name>>
    /\ NameFrame

\* let number: u16 = rng.gen_range(0..1000);
ChooseNumber(k) ==
    /\ pc = "number"
    /\ k \in gen_range(0, NumberRange)
    /\ draws' = Append(draws, k)
    /\ pc' = "format"
    /\ UNCHANGED <<generated, random_name>>
    /\ NameFrame

\* format!("{}{}{}", adjective, noun, number), returned to the caller.
FormatName ==
    /\ pc = "format"
    /\ random_name' = generate_random_name(draws[1], draws[2], draws[3])
    /\ generated' = generated + 1
    /\ pc' = "idle"
    /\ UNCHANGED draws
    /\ NameFrame

DrawAdjective == \E a \in gen_range(0, Len(adjectives)) : ChooseAdjective(a)
DrawNoun == \E n \in gen_range(0, Len(nouns)) : ChooseNoun(n)
DrawNumber == \E k \in gen_range(0, NumberRange) : ChooseNumber(k)

NameNext == DrawAdjective \/ DrawNoun \/ DrawNumber \/ FormatName

NameSpec == NameInit /\ [][NameNext]_vars

TypeOK ==
    /\ pc \in {"idle", "send", "receipt", "panicked"}
    /\ ticks \in 0..MaxTicks
    /\ KEY \in {"uninit"} \cup (EnvStates \ {"unset"})

\* ------------------------------------------------------------------ claims

\* C1: whenever a create_new_task call returns, with Ok or with any error,
\* the scheduler is back in interval.tick() (Idle), and the ticks keep
\* coming, each with a new name and a new call: no returned error stops the
\* loop.  Only a call that never returns (a panic) ends it; ticks are
\* followed up to the bound MaxTicks.
C1_ErrorsNeverStopTheLoop ==
    /\ [][returned' = returned + 1 => pc' = "idle"]_vars
    /\ <>(pc = "panicked"
          \/ (ticks = MaxTicks /\ generated = MaxTicks
                /\ callsMade = MaxTicks))

\* C1 witness: three calls in a row returned an error, the last one from the
\* receipt wait, and the loop is in interval.tick() again.
C1_Witness ==
    /\ ticks = 3 /\ returned = 3 /\ ~anyOk
    /\ cur.result = "receipt" /\ pc = "idle"

Attempted(c, step) == \E i \in DOMAIN c.steps : c.steps[i] = step
Window(t) == t \div Period

\* C2: at most one create_new_task call is in flight: a tick starts a call
\* only after every earlier call has returned, however long a call takes.
C2_AtMostOneInFlight ==
    /\ Cardinality(inflight) <= 1
    /\ inflight \subseteq {ticks}
    /\ callsMade - returned = Cardinality(inflight)
    /\ (pc \in {"send", "receipt"}) = (inflight # {} /\ pc # "panicked")

\* C2 witness: the second call is in flight, started after a first call
\* that took longer than two intervals.
C2_Witness ==
    /\ ticks = 2 /\ inflight = {2} /\ returned = 1
    /\ lastStart = LongDelay /\ LongDelay > Period

\* C3: with an instantaneous submitter, N ticks make exactly N names and N
\* create_new_task calls, tick k at 15 * (k - 1), whether the calls
\* succeed or fail.
C3_InstantTicksEveryPeriod ==
    maxDelay = 0 =>
        /\ generated = ticks
        /\ callsMade = ticks
        /\ returned + Cardinality(inflight) = ticks
        /\ ticks >= 1 => lastStart = Period * (ticks - 1)
        /\ deadline = Period * ticks

\* C3 witness: three instantaneous ticks, some call returned Ok and the
\* third returned an error; the third tick was at 30.
C3_Witness ==
    /\ maxDelay = 0 /\ ticks = 3 /\ returned = 3 /\ anyOk
    /\ cur.result \in Errors /\ lastStart = 2 * Period

\* C4 as claimed: no two consecutive tick starts fall in the same 15-unit
\* window.
C4_OneTickPerWindow ==
    [][(ticks' = ticks + 1 /\ ticks >= 1) =>
           Window(lastStart') # Window(lastStart)]_vars

\* C4 amended: tick k + 1 never starts before 15 * k, measured from loop
\* start; a tick that started on its scheduled instant does not share its
\* window with the next tick; when a call ran past 15 * k, tick k + 1
\* starts at the instant that call returned.
C4_TicksFollowTheSchedule ==
    [][ticks' = ticks + 1 =>
           /\ lastStart' >= Period * ticks
           /\ (ticks >= 1 /\ lastStart = Period * (ticks - 1)) =>
                  Window(lastStart') # Window(lastStart)
           /\ now > Period * ticks => lastStart' = now]_vars

\* C4 witness: after a first call that took longer than two intervals, the
\* second and the third tick both started at the instant it returned.
C4_Witness ==
    /\ ticks = 3 /\ maxDelay = LongDelay /\ lastStart = LongDelay
    /\ LongDelay > 2 * Period

\* C5: a call that finds the deployment file missing, unreadable, not
\* JSON, without the address field or with a malformed address returns a
\* config error at once: the key is not resolved, no client is built,
\* nothing is sent.
C5_BadFileFailsBeforeCredential ==
    [][(ticks' = ticks + 1 /\ file' \in BadFiles) =>
           /\ cur'.result \in ConfigErrors
           /\ returned' = returned + 1
           /\ KEY' = KEY /\ envReads' = envReads /\ firstKey' = firstKey
           /\ cur'.key = "none"
           /\ ~Attempted(cur', "key") /\ ~Attempted(cur', "client")
           /\ ~Attempted(cur', "send") /\ ~Attempted(cur', "receipt")
           /\ net' = <<>>]_vars

\* C5 witness: a call found a malformed address while a valid key was in
\* the environment; it returned the address error and the key is still
\* unresolved.
C5_Witness ==
    /\ ticks >= 1 /\ file = "badaddr" /\ cur.result = "address"
    /\ env \in ValidKeys /\ KEY = "uninit" /\ envReads = 0

\* C6 as claimed: a tick taken while PRIVATE_KEY is unset and unresolved
\* aborts the process, whatever the deployment file.
C6_UnsetKeyAlwaysAborts ==
    [][(ticks' = ticks + 1 /\ env = "unset" /\ KEY = "uninit") =>
           pc' = "panicked"]_vars

\* C6 amended: a tick taken while PRIVATE_KEY is unset and unresolved aborts
\* the process when the deployment file yields an address (the first use
\* of the key), and the aborted process never ticks again; when the file
\* is bad the call returns a config error, the key stays unresolved and
\* the loop goes on.
C6_UnsetKeyAbortsAtFirstUse ==
    /\ [][(ticks' = ticks + 1 /\ env = "unset" /\ KEY = "uninit") =>
              IF file' \in ValidFiles
              THEN pc' = "panicked" /\ returned' = returned
              ELSE /\ pc' = "idle" /\ cur'.result \in ConfigErrors
                   /\ KEY' = "uninit"]_vars
    /\ [][pc = "panicked" => (pc' = "panicked" /\ ticks' = ticks)]_vars

\* C6 witness: the process aborted in its second tick, with the key unset
\* and unresolved: the first tick had gone by without a credential.
C6_Witness ==
    /\ pc = "panicked" /\ ticks = 2 /\ returned = 1
    /\ env = "unset" /\ KEY = "uninit" /\ envReads = 1

\* C7 as claimed, for a process whose key is valid: every call uses the
\* first address ever resolved, and once an address was resolved no call
\* returns a config error.
C7_AddressResolvedOnce ==
    (firstAddr # "none" /\ KEY \in ValidKeys) =>
        /\ cur.to = firstAddr
        /\ cur.result \notin ConfigErrors
        /\ \A i \in DOMAIN net : net[i].to = firstAddr

\* C7 amended: every call resolves the address anew from the deployment
\* file as it finds it: a transaction goes to the address its own call
\* parsed, and a call that finds a bad file returns a config error also
\* after earlier calls resolved an address.
C7_AddressResolvedPerCall ==
    /\ ticks >= 1 =>
          /\ file \in ValidFiles => cur.to = parse(file)
          /\ file \in BadFiles => cur.result \in ConfigErrors
    /\ \A i \in DOMAIN net : net[i].to = parse(file)

\* C7 witness: the first address resolved was A; the file was changed and
\* the latest transaction went to B.
C7_Witness ==
    /\ firstAddr = "A" /\ file = "addrB"
    /\ Len(net) = 1 /\ net[1].to = "B"

\* C8: PRIVATE_KEY is read at most once, and every call and transaction
\* uses the value of that first read, whatever the variable holds later.
C8_KeyReadOnce ==
    /\ envReads <= 1
    /\ KEY \in {"uninit", firstKey}
    /\ cur.key \in {"none", firstKey}
    /\ \A i \in DOMAIN net : net[i].key = firstKey

\* C8 witness: a call that started while PRIVATE_KEY held k2 broadcast a
\* transaction signed with k1, the value of the first read, in a tick
\* after the first.
C8_Witness ==
    /\ pc = "receipt" /\ ticks >= 2 /\ env = "k2" /\ firstKey = "k1"
    /\ Len(net) = 1 /\ net[1].key = "k1"

\* C9: a tick broadcasts at most one transaction: exactly one when its call
\* got through send(), whether or not the receipt wait succeeded, none when
\* the call failed before or at send(); the transaction carries the name
\* generated in its own tick, so nothing of an earlier tick is sent again.
C9_OneBroadcastNoRetry ==
    /\ Len(net) <= 1
    /\ (Len(net) = 1) = (pc = "receipt" \/ cur.result \in {"receipt", "ok"})
    /\ cur.result \in ConfigErrors \cup {"credential", "send", "panic"} =>
          net = <<>>
    /\ \A i \in DOMAIN net :
          /\ net[i].name = cur.name
          /\ net[i].hash = TxHash(ticks)
          /\ tickLog[1] = [kind |-> "creating", value |-> net[i].name]

\* C9 witness: the first call failed; the second got through send() and
\* failed in the receipt wait: one transaction was broadcast.
C9_Witness ==
    /\ ticks = 2 /\ returned = 2 /\ ~anyOk /\ pc = "idle"
    /\ cur.result = "receipt" /\ Len(net) = 1

\* C10 as claimed: after 3 ticks, 3 distinct names and 3 calls.
C10_ThreeDistinctNames ==
    ticks = 3 =>
        /\ Cardinality(namesSeen) = 3
        /\ generated = 3 /\ callsMade = 3

\* C10 amended: after 3 ticks, 3 names were generated, not necessarily
\* distinct, and 3 calls were made, each with the name generated (and
\* logged) in its own tick.
C10_ThreeNamesThreeCalls ==
    /\ ticks = 3 =>
          /\ generated = 3 /\ callsMade = 3
          /\ Cardinality(namesSeen) \in 1..3
    /\ ticks >= 1 =>
          /\ cur.name \in namesSeen
          /\ tickLog[1] = [kind |-> "creating", value |-> cur.name]

\* C10 witness: three ticks generated three distinct names.
C10_Witness ==
    /\ ticks = 3 /\ Cardinality(namesSeen) = 3 /\ callsMade = 3

\* The decimal numeral of k, 0 <= k <= 999, digit by digit: no sign, no
\* separator, no leading zero.
Numeral(k) ==
    IF k < 10 THEN Digits[k + 1]
    ELSE IF k < 100 THEN Digits[(k \div 10) + 1] \o Digits[(k % 10) + 1]
    ELSE Digits[(k \div 100) + 1] \o Digits[((k \div 10) % 10) + 1]
             \o Digits[(k % 10) + 1]

AdjectiveSet == {"Quick", "Lazy", "Sleepy", "Noisy", "Hungry"}
NounSet == {"Fox", "Dog", "Cat", "Mouse", "Bear"}

\* C11: generate_random_name never fails: at each of its draws every value
\* of the range can be drawn (each of the 5 adjectives, each of the 5 nouns,
\* each n in 0..999), every draw lies in its range, and the call then
\* returns; what it returns is adjective ++ noun ++ numeral(n), with the
\* adjective and the noun of the fixed sets and n written in decimal
\* without leading zeros or separators.
C11_NameFormat ==
    /\ (pc = "idle" /\ generated < MaxTicks) =>
          \A a \in 0 .. 4 : ENABLED ChooseAdjective(a)
    /\ pc = "noun" => \A n \in 0 .. 4 : ENABLED ChooseNoun(n)
    /\ pc = "number" => \A k \in 0 .. 999 : ENABLED ChooseNumber(k)
    /\ pc = "format" => ENABLED FormatName
    /\ Len(draws) >= 1 => draws[1] \in 0 .. 4
    /\ Len(draws) >= 2 => draws[2] \in 0 .. 4
    /\ Len(draws) >= 3 => draws[3] \in 0 .. 999
    /\ random_name # "" =>
          /\ Len(draws) = 3
          /\ adjectives[draws[1] + 1] \in AdjectiveSet
          /\ nouns[draws[2] + 1] \in NounSet
          /\ random_name = adjectives[draws[1] + 1] \o nouns[draws[2] + 1]
                               \o Numeral(draws[3])

\* C11 witness: the second call drew the last adjective, the last noun and
\* the largest number, and returned "HungryBear999".
C11_Witness ==
    /\ generated = 2 /\ pc = "idle"
    /\ draws = <<4, 4, 999>> /\ random_name = "HungryBear999"

CreatingLines(log) == {i \in DOMAIN log : log[i].kind = "creating"}
TxLines(log) == {i \in DOMAIN log : log[i].kind = "tx"}

\* C12: a tick logs exactly one 'creating task' line; after it the log
\* grows only by one transaction-hash line, at the moment the receipt wait
\* of that tick succeeds.  So the log of a tick holds a transaction-hash
\* line if and only if its send and its receipt wait both succeeded, and a
\* call that failed at any step (or aborted) left no line about its
\* outcome.
C12_LogOnlyNamesAndHashes ==
    [][/\ ticks' = ticks + 1 =>
             /\ Len(tickLog') = 1
             /\ tickLog'[1] = [kind |-> "creating", value |-> random_name']
       /\ ticks' = ticks =>
             IF pc = "receipt" /\ cur'.result = "ok"
             THEN tickLog' = Append(tickLog, [kind |-> "tx",
                                             value |-> net[1].hash])
             ELSE tickLog' = tickLog
       /\ cur'.result = "ok" =>
             /\ Attempted(cur', "send") /\ Attempted(cur', "receipt")
             /\ Len(net') = 1
       /\ (TxLines(tickLog') # {}) = (cur'.result = "ok")
       /\ Cardinality(TxLines(tickLog')) <= 1
       /\ Cardinality(CreatingLines(tickLog')) = (IF ticks' = 0 THEN 0 ELSE 1)
       /\ DOMAIN tickLog' = CreatingLines(tickLog') \cup TxLines(tickLog')
       /\ cur'.result \in Errors \cup {"panic"} =>
             tickLog' = <<[kind |-> "creating", value |-> cur'.name]>>]_vars

\* C12 witness: the second tick's call got its receipt: the log of the
\* tick is the name line followed by the hash line.
C12_Witness ==
    /\ ticks = 2 /\ returned = 2 /\ cur.result = "ok" /\ maxDelay = 0
    /\ tickLog = <<[kind |-> "creating", value |-> cur.name],
                   [kind |-> "tx", value |-> TxHash(2)]>>

\* Every value the process has put on its log, standard output or
\* standard error.
Emitted ==
    {tickLog[i].value : i \in DOMAIN tickLog}
        \cup {stderr[i].value : i \in DOMAIN stderr}

\* What PRIVATE_KEY holds or held: in the environment, in the cell KEY, at
\* the first read.
Secrets == {env, KEY, firstKey} \ {"unset", "uninit", "none"}

\* C13: the content of PRIVATE_KEY, as the environment holds it or as KEY
\* has cached it, is in no line the process logged or printed, also after
\* a call failed or the process aborted; every value on the log is the
\* name generated in the tick or the hash of its transaction.
C13_CredentialNeverEmitted ==
    /\ Secrets \cap Emitted = {}
    /\ \A i \in DOMAIN tickLog :
          tickLog[i].value \in {random_name, TxHash(ticks)}

StepOrder ==
    <<"read", "json", "address", "key", "client", "signer", "send",
      "receipt">>
Last(q) == q[Len(q)]

\* C14: the steps a create_new_task call attempted are an initial part of
\* read file, parse JSON, parse address, resolve credential, build client
\* (and signer), send, await receipt.  The step that fails is the last one
\* attempted: the call returns its error there and nothing of the call
\* happens afterwards, and a bad file fails at its own step (read, parse
\* JSON, parse address), not at a later one.  The receipt is awaited only
\* after a send that succeeded and broadcast the transaction.
C14_StepsInOrderStopAtFirstError ==
    [][/\ cur'.steps = SubSeq(StepOrder, 1, Len(cur'.steps))
       /\ ticks' >= 1 =>
             /\ cur'.result = "io" => Last(cur'.steps) = "read"
             /\ cur'.result = "json" => Last(cur'.steps) = "json"
             /\ cur'.result = "address" => Last(cur'.steps) = "address"
             /\ cur'.result = "credential" => Last(cur'.steps) = "signer"
             /\ cur'.result = "panic" =>
                   Last(cur'.steps) \in {"key", "client", "signer"}
             /\ cur'.result = "send" =>
                   Last(cur'.steps) = "send" /\ net' = <<>>
             /\ cur'.result \in {"receipt", "ok"} =>
                   Last(cur'.steps) = "receipt"
             /\ file' \in MissingFiles => cur'.result = "io"
             /\ file' \in MalformedJson => cur'.result = "json"
             /\ file' \in MalformedAddress => cur'.result = "address"
       /\ Attempted(cur', "receipt") =>
             /\ Len(net') = 1
             /\ pc' = "receipt" \/ cur'.result \in {"receipt", "ok"}
       /\ (pc = "send" /\ cur'.result = "send") =>
             /\ ~Attempted(cur', "receipt")
             /\ pc' = "idle"
       /\ (cur.result \in Errors /\ ticks' = ticks) =>
             /\ cur' = cur /\ net' = net /\ tickLog' = tickLog]_vars

\* C14 witness: the second call went through every step and failed in the
\* last one, the receipt wait; no call before it had succeeded.
C14_Witness ==
    /\ ticks = 2 /\ returned = 2 /\ cur.steps = StepOrder
    /\ cur.result = "receipt" /\ Len(net) = 1 /\ firstAddr = cur.to
    /\ ~anyOk /\ envReads = 1

\* C15: the first tick fires at time 0, with no first wait of 15 seconds:
\* the step that takes the loop from no tick to its first tick happens at
\* instant 0 and generates the first name and makes the first call there.
\* As long as no await has taken 15 seconds or more (a receipt wait is
\* either immediate or longer than that, so every call then took less than
\* 15 seconds), tick k starts at 15 * (k - 1).
C15_FirstTickImmediate ==
    [][/\ (ticks = 0 /\ ticks' = 1) =>
             /\ now = 0 /\ now' = 0 /\ lastStart' = 0
             /\ generated' = 1 /\ callsMade' = 1
             /\ random_name' # "" /\ cur'.name = random_name'
             /\ Attempted(cur', "read")
       /\ (ticks' >= 1 /\ maxDelay' < Period) =>
             lastStart' = Period * (ticks' - 1)]_vars

\* C15 witness: the third tick started at 30 after a call that took
\* ShortDelay seconds, more than nothing and less than an interval.
C15_Witness ==
    /\ ticks = 3 /\ lastStart = 2 * Period /\ maxDelay = ShortDelay
    /\ ShortDelay > 0 /\ ShortDelay < Period

\* C16: tick k + 1 (k >= 1) starts at max(15 * k, the instant call k
\* returned), for every choice of the durations: never before its
\* scheduled instant, and at once when that instant has passed during the
\* call; the tick after it stays due at 15 * (k + 1), so no scheduled tick
\* is dropped.  By time t at most t / 15 + 1 ticks have started.
C16_TickStartsAtMaxOfScheduleAndReturn ==
    [][/\ (ticks' = ticks + 1 /\ ticks >= 1) =>
             /\ lastStart' = Max(Period * ticks, now)
             /\ lastStart' >= Period * ticks
             /\ now >= Period * ticks => lastStart' = now
             /\ deadline' = Period * (ticks + 1)
             /\ pc = "idle" /\ inflight = {}
       /\ ticks' <= (now' \div Period) + 1]_vars

\* C16 witness: the first call took ShortDelay + LongDelay seconds, past
\* the instants of the second and the third tick; both ran when it
\* returned, and the fourth tick is still due at 45.
C16_Witness ==
    /\ ticks = 3 /\ lastStart = ShortDelay + LongDelay
    /\ lastStart > 2 * Period /\ deadline = 3 * Period

\* C17: when a tick enters create_new_task the log of the tick already
\* holds the 'creating' line of the name just generated, which is the name
\* passed to the call; it is the only such line of the tick and stays the
\* first line while the call is in flight and after it returned, failed or
\* aborted; a transaction is broadcast only with the name that was on the
\* log before the broadcast.
C17_NameLoggedBeforeCall ==
    [][/\ ticks' = ticks + 1 =>
             /\ tickLog' # <<>>
             /\ tickLog'[1] = [kind |-> "creating", value |-> random_name']
             /\ cur'.name = random_name'
             /\ callsMade' = callsMade + 1
       /\ ticks' >= 1 =>
             /\ CreatingLines(tickLog') = {1}
             /\ tickLog'[1].value = cur'.name
       /\ (ticks' = ticks /\ ticks >= 1) =>
             /\ tickLog'[1] = tickLog[1]
             /\ cur'.name = cur.name
       /\ (net' # net /\ net' # <<>>) =>
             /\ tickLog # <<>>
             /\ \A i \in DOMAIN net' : net'[i].name = tickLog[1].value
       /\ cur'.result \in Errors \cup {"panic"} =>
             tickLog'[1] = [kind |-> "creating", value |-> cur'.name]]_vars

\* C17 witness: the second call is in flight in send(), nothing is
\* broadcast yet, and the log of the tick holds the line with its name.
C17_Witness ==
    /\ ticks = 2 /\ pc = "send" /\ returned = 1 /\ net = <<>>
    /\ tickLog = <<[kind |-> "creating", value |-> cur.name]>>
    /\ cur.name = random_name
====
